---- MODULE Spec2Model ----
(***************************************************************************)
(* Model of the go-live UI components of streamlabs-obs:                   *)
(*   - BaseEditStreamInfo / YoutubeEditStreamInfo (the Youtube stream-info *)
(*     editor with its broadcast selector),                                *)
(*   - GoLiveChecklist / CheckMark (the go-live checklist view).           *)
(* The editor is checked under Spec, the checklist under SpecChecklist.    *)
(***************************************************************************)
EXTENDS Integers, Sequences, FiniteSets, TLC

(***************************************************************************)
(* Bounds of the model.                                                    *)
(***************************************************************************)
\* longest list of broadcasts fetchBroadcasts() resolves with
MaxBroadcasts == 2
\* longest list view.enabledPlatforms holds
MaxEnabled == 2

(***************************************************************************)
(* Types shared by both components.                                        *)
(***************************************************************************)
\* TPlatform, in the key order of getPlatformService's table
TPlatform == <<"twitch", "youtube", "mixer", "facebook">>

Platforms == {TPlatform[i] : i \in 1..Len(TPlatform)}

\* sequences over S without repetition, of length at most n
RECURSIVE DistinctSeqs(_, _)
DistinctSeqs(S, n) ==
  IF n = 0 THEN {<<>>}
  ELSE LET shorter == DistinctSeqs(S, n - 1)
           longer == {Append(s, x) : s \in shorter, x \in S}
       IN  shorter \cup
           {s \in longer : \A i, j \in 1..Len(s) : s[i] = s[j] => i = j}

(***************************************************************************)
(* YoutubeEditStreamInfo: state.                                           *)
(***************************************************************************)
VARIABLES
  settings,          \* IStreamSettings: destinations and advancedMode
  broadcasts,        \* IYoutubeLiveBroadcast[]
  broadcastsLoaded,  \* boolean
  fetchPromise,      \* state of the promise fetchBroadcasts() returned
  isMidStreamMode,   \* streamingService.views.isMidStreamMode
  pc,                \* position inside the BroadcastInput input event
  last               \* the last operation and whether it changed title/description

editorVars == <<settings, broadcasts, broadcastsLoaded, fetchPromise,
                isMidStreamMode, pc, last>>

\* texts the title and description fields take in the model
Titles == {"my title", "Event 1", "Event 2"}
Descriptions == {"my description", "About event 1"}

\* broadcasts the Youtube account may hold; two of them share an id
BroadcastCatalog ==
  { [id |-> "b1", snippet |-> [title |-> "Event 1", description |-> "About event 1"]],
    [id |-> "b2", snippet |-> [title |-> "Event 2", description |-> "About event 1"]],
    [id |-> "b2", snippet |-> [title |-> "Event 1", description |-> "my description"]] }

\* ids the selector may hand over: no selection, catalog ids, an id of no broadcast
BroadcastIds == {"", "b1", "b2", "b9"}

FetchResults == DistinctSeqs(BroadcastCatalog, MaxBroadcasts)

(***************************************************************************)
(* BaseEditStreamInfo.                                                     *)
(***************************************************************************)
\* Object.keys(destinations): the platforms that have a destination, in key order
DestinationKeys(s) ==
  SelectSeq(TPlatform, LAMBDA p : p \in DOMAIN s.destinations)

\* enabledPlatforms without the filter on the enabled flag
enabledPlatformsAllKeys(s) == DestinationKeys(s)

\* get enabledPlatforms()
enabledPlatforms(s) ==
  SelectSeq(DestinationKeys(s), LAMBDA p : s.destinations[p].enabled)

\* get canShowOnlyRequiredFields()
canShowOnlyRequiredFields(s) ==
  Len(enabledPlatforms(s)) > 1 /\ ~s.advancedMode

(***************************************************************************)
(* YoutubeEditStreamInfo.                                                  *)
(***************************************************************************)
\* canChangeBroadcast that also waits for the broadcasts
canChangeBroadcastWhenLoaded == ~isMidStreamMode /\ broadcastsLoaded

\* get canChangeBroadcast()
canChangeBroadcast == ~isMidStreamMode

\* the value of an expression that yields no object
undefined == [undefined |-> TRUE]

\* Array.prototype.find: the first broadcast with the id, or undefined
RECURSIVE Find(_, _)
Find(list, id) ==
  IF list = <<>> THEN undefined
  ELSE IF Head(list).id = id THEN Head(list)
  ELSE Find(Tail(list), id)

\* onSelectBroadcastHandler that forgets the description
SelectBroadcastTitleOnly(s, list) ==
  LET selectedBroadcast == Find(list, s.destinations["youtube"].broadcastId)
  IN  IF selectedBroadcast = undefined THEN s
      ELSE [s EXCEPT !.destinations["youtube"].title = selectedBroadcast.snippet.title]

\* the settings onSelectBroadcastHandler leaves behind
SelectBroadcast(s, list) ==
  LET ytSettings == s.destinations["youtube"]
      selectedBroadcast == Find(list, ytSettings.broadcastId)
  IN  IF selectedBroadcast = undefined THEN s
      ELSE [s EXCEPT !.destinations["youtube"].title = selectedBroadcast.snippet.title,
                     !.destinations["youtube"].description =
                        selectedBroadcast.snippet.description]

\* get formMetadata(): the event entry handed to BroadcastInput
formMetadata ==
  [event |-> [broadcasts |-> broadcasts,
              loading |-> ~broadcastsLoaded,
              disabled |-> ~canChangeBroadcast]]

\* render(): whether the form, and with it the broadcast selector, is rendered
FormRendered == ~canShowOnlyRequiredFields(settings)

\* whether an operation changed the youtube title or description
TextChanged(s, t) ==
  \/ s.destinations["youtube"].title # t.destinations["youtube"].title
  \/ s.destinations["youtube"].description # t.destinations["youtube"].description

\* the value prop at creation, for a user who linked the platforms in linked
InitSettings(linked) ==
  [destinations |->
     [p \in linked |->
        IF p = "youtube"
        THEN [enabled |-> TRUE, title |-> "my title",
              description |-> "my description", broadcastId |-> ""]
        ELSE [enabled |-> FALSE]],
   advancedMode |-> FALSE]

EditorInit ==
  /\ \E linked \in SUBSET Platforms :
       /\ "youtube" \in linked
       /\ settings = InitSettings(linked)
  /\ broadcasts = <<>>
  /\ broadcastsLoaded = FALSE
  /\ fetchPromise = [state |-> "pending", value |-> <<>>]
  /\ isMidStreamMode \in BOOLEAN
  /\ pc = "idle"
  /\ last = [op |-> "created", changed |-> FALSE]

\* created() that applies the stored selection once the broadcasts are there
FetchBroadcastsFulfilledReapplies ==
  /\ pc = "idle"
  /\ fetchPromise.state = "pending"
  /\ \E list \in FetchResults :
       /\ fetchPromise' = [state |-> "fulfilled", value |-> list]
       /\ broadcasts' = list
       /\ broadcastsLoaded' = TRUE
       /\ settings' = SelectBroadcast(settings, list)
  /\ last' = [op |-> "fulfilled", changed |-> TextChanged(settings, settings')]
  /\ UNCHANGED <<isMidStreamMode, pc>>

\* created(), resumed after the await: the promise is fulfilled with list and
\* both assignments run in the same microtask
FetchBroadcastsFulfilled ==
  /\ pc = "idle"
  /\ fetchPromise.state = "pending"
  /\ \E list \in FetchResults :
       /\ fetchPromise' = [state |-> "fulfilled", value |-> list]
       /\ broadcasts' = list
       /\ broadcastsLoaded' = TRUE
  /\ last' = [op |-> "fulfilled", changed |-> FALSE]
  /\ UNCHANGED <<settings, isMidStreamMode, pc>>

\* created() that ends the loading in a finally block
FetchBroadcastsRejectedLoaded ==
  /\ pc = "idle"
  /\ fetchPromise.state = "pending"
  /\ fetchPromise' = [state |-> "rejected", value |-> <<>>]
  /\ broadcastsLoaded' = TRUE
  /\ last' = [op |-> "rejected", changed |-> FALSE]
  /\ UNCHANGED <<settings, broadcasts, isMidStreamMode, pc>>

\* created(): the await throws, nothing after it runs
FetchBroadcastsRejected ==
  /\ pc = "idle"
  /\ fetchPromise.state = "pending"
  /\ fetchPromise' = [state |-> "rejected", value |-> <<>>]
  /\ last' = [op |-> "rejected", changed |-> FALSE]
  /\ UNCHANGED <<settings, broadcasts, broadcastsLoaded, isMidStreamMode, pc>>

\* BroadcastInput's input event, first listener: vModel stores the chosen id
BroadcastInputVModel ==
  /\ pc = "idle"
  /\ FormRendered
  /\ \E id \in BroadcastIds :
       settings' = [settings EXCEPT !.destinations["youtube"].broadcastId = id]
  /\ pc' = "input"
  /\ last' = [op |-> "vModel", changed |-> FALSE]
  /\ UNCHANGED <<broadcasts, broadcastsLoaded, fetchPromise, isMidStreamMode>>

\* BroadcastInput's input event, second listener
onSelectBroadcastHandler ==
  /\ pc = "input"
  /\ settings' = SelectBroadcast(settings, broadcasts)
  /\ pc' = "idle"
  /\ last' = [op |-> IF Find(broadcasts, settings.destinations["youtube"].broadcastId)
                          = undefined
                     THEN "selectMiss" ELSE "selectHit",
              changed |-> TextChanged(settings, settings')]
  /\ UNCHANGED <<broadcasts, broadcastsLoaded, fetchPromise, isMidStreamMode>>

\* CommonPlatformFields vModel: the user types a title or a description
CommonPlatformFieldsInput ==
  /\ pc = "idle"
  /\ FormRendered
  /\ \E t \in Titles, d \in Descriptions :
       /\ settings' = [settings EXCEPT !.destinations["youtube"].title = t,
                                       !.destinations["youtube"].description = d]
       /\ TextChanged(settings, settings')
  /\ last' = [op |-> "edit", changed |-> TRUE]
  /\ UNCHANGED <<broadcasts, broadcastsLoaded, fetchPromise, isMidStreamMode, pc>>

\* the parent hands over a value with another destination switched on or off
ValueDestinationToggled ==
  /\ pc = "idle"
  /\ \E p \in DOMAIN settings.destinations :
       settings' = [settings EXCEPT !.destinations[p].enabled = ~@]
  /\ last' = [op |-> "value", changed |-> FALSE]
  /\ UNCHANGED <<broadcasts, broadcastsLoaded, fetchPromise, isMidStreamMode, pc>>

\* the parent hands over a value with advancedMode switched
ValueAdvancedModeToggled ==
  /\ pc = "idle"
  /\ settings' = [settings EXCEPT !.advancedMode = ~@]
  /\ last' = [op |-> "value", changed |-> FALSE]
  /\ UNCHANGED <<broadcasts, broadcastsLoaded, fetchPromise, isMidStreamMode, pc>>

\* the streaming service enters or leaves the mid-stream mode
MidStreamModeChanged ==
  /\ pc = "idle"
  /\ isMidStreamMode' = ~isMidStreamMode
  /\ last' = [op |-> "midStream", changed |-> FALSE]
  /\ UNCHANGED <<settings, broadcasts, broadcastsLoaded, fetchPromise, pc>>

(***************************************************************************)
(* Numbers: an IEEE 754 double other than zero is 0x1.h2...h14 * 2^exp,    *)
(* kept as its 14 hexadecimal digits and exp; zero has the digits all 0.   *)
(***************************************************************************)
\* bits of the significand of a double
SignificandBits == 53

HexDigits == 14

Reverse(s) == [i \in 1..Len(s) |-> s[Len(s) + 1 - i]]

\* the four bits of a hexadecimal digit, most significant first
Bits4(d) == <<d \div 8, (d \div 4) % 2, (d \div 2) % 2, d % 2>>

RECURSIVE HexToBits(_)
HexToBits(h) == IF h = <<>> THEN <<>> ELSE Bits4(Head(h)) \o HexToBits(Tail(h))

RECURSIVE BitsToHex(_)
BitsToHex(b) ==
  IF b = <<>> THEN <<>>
  ELSE <<8 * b[1] + 4 * b[2] + 2 * b[3] + b[4]>> \o BitsToHex(SubSeq(b, 5, Len(b)))

RECURSIVE StripZeros(_)
StripZeros(b) == IF b # <<>> /\ Head(b) = 0 THEN StripZeros(Tail(b)) ELSE b

\* digits (least significant first, base 16) times k plus carry
RECURSIVE MulCarry(_, _, _)
MulCarry(le, k, c) ==
  IF le = <<>>
  THEN IF c = 0 THEN <<>> ELSE <<c % 16>> \o MulCarry(<<>>, k, c \div 16)
  ELSE LET v == Head(le) * k + c
       IN  <<v % 16>> \o MulCarry(Tail(le), k, v \div 16)

\* bits (least significant first) plus one
RECURSIVE IncBits(_)
IncBits(le) ==
  IF le = <<>> THEN <<1>>
  ELSE IF Head(le) = 0 THEN <<1>> \o Tail(le)
  ELSE <<0>> \o IncBits(Tail(le))

Zeros(n) == [i \in 1..n |-> 0]

DoubleZero == [hex |-> Zeros(HexDigits), exp |-> 0]

\* the double nearest to bits * 2^(exp - 52), ties to even; bits starts with a 1
RoundToDouble(bits, exp) ==
  LET n == Len(bits)
      padded == IF n < SignificandBits THEN bits \o Zeros(SignificandBits - n) ELSE bits
      keep == SubSeq(padded, 1, SignificandBits)
      rest == SubSeq(padded, SignificandBits + 1, Len(padded))
      roundUp == /\ rest # <<>>
                 /\ rest[1] = 1
                 /\ \/ keep[SignificandBits] = 1
                    \/ \E i \in 2..Len(rest) : rest[i] = 1
      up == Reverse(IncBits(Reverse(keep)))
      sig == IF roundUp THEN SubSeq(up, 1, SignificandBits) ELSE keep
      carry == IF roundUp /\ Len(up) > SignificandBits THEN 1 ELSE 0
  IN  [hex |-> BitsToHex(<<0, 0, 0>> \o sig), exp |-> exp + (n - 1) + carry]

\* the product d * k of a double and a small positive integer literal
DoubleTimes(d, k) ==
  IF d = DoubleZero THEN DoubleZero
  ELSE LET product == Reverse(MulCarry(Reverse(d.hex), k, 0))
           bits == StripZeros(HexToBits(product))
       IN  RoundToDouble(bits, d.exp - (SignificandBits - 1))

\* the bits of a positive integer, most significant first
RECURSIVE IntBits(_)
IntBits(n) == IF n = 0 THEN <<>> ELSE Append(IntBits(n \div 2), n % 2)

\* the double of a small integer literal
DoubleOfInt(n) == IF n = 0 THEN DoubleZero ELSE RoundToDouble(IntBits(n), 0)

(***************************************************************************)
(* GoLiveChecklist: state.                                                 *)
(***************************************************************************)
VARIABLES
  info,                 \* view.info: error, lifecycle, checklist
  isMutliplatformMode,  \* view.isMutliplatformMode
  goLiveSettings,       \* view.goLiveSettings
  viewEnabledPlatforms, \* view.enabledPlatforms
  isUpdateMode,         \* props.isUpdateMode
  useOptimizedProfile,  \* videoEncodingOptimizationService.state.useOptimizedProfile
  tweetWhenGoingLive,   \* twitterService.state.tweetWhenGoingLive
  progressInfo,         \* youtubeService.progressInfo
  rendered              \* what render() returned last

checklistVars == <<info, isMutliplatformMode, goLiveSettings, viewEnabledPlatforms,
                   isUpdateMode, useOptimizedProfile, tweetWhenGoingLive,
                   progressInfo, rendered>>

\* TGoLiveChecklistItemState
ItemStates == {"not-started", "pending", "done", "failed"}

\* the keys of view.info.checklist, in the order the go-live run walks them
StageOrder ==
  TPlatform \o <<"setupRestream", "applyOptimizedSettings", "startVideoTransmission",
                 "publishYoutubeBroadcast", "postTweet">>

Stages == {StageOrder[i] : i \in 1..Len(StageOrder)}

\* values of view.info.lifecycle
Lifecycles == {"waitForNewSettings", "runChecklist", "live"}

\* values of youtubeService.progressInfo.progress: 0, 0.29 and 0.42
ProgressValues ==
  { DoubleZero,
    [hex |-> <<1, 2, 8, 15, 5, 12, 2, 8, 15, 5, 12, 2, 8, 15>>, exp |-> -2],
    [hex |-> <<1, 10, 14, 1, 4, 7, 10, 14, 1, 4, 7, 10, 14, 1>>, exp |-> -2] }

\* values of view.goLiveSettings.destinations: without youtube, with it on or off
GoLiveDestinations ==
  {<<>>} \cup {[p \in {"youtube"} |-> [enabled |-> e]] : e \in BOOLEAN}

\* values of view.enabledPlatforms: up to MaxEnabled platforms in any order
EnabledPlatformLists == DistinctSeqs(Platforms, MaxEnabled)

\* $t(text): the translation keeps the text apart from its parameter
T(text, params) == [text |-> text, params |-> params]

\* getPlatformService(platform)
getPlatformService(platform) ==
  CASE platform = "twitch" -> "TwitchService.instance"
    [] platform = "youtube" -> "YoutubeService.instance"
    [] platform = "mixer" -> "MixerService.instance"
    [] platform = "facebook" -> "FacebookService.instance"

\* getPlatformDisplayName(platform)
getPlatformDisplayName(platform) == <<getPlatformService(platform), "displayName">>

\* the value of view.info.error while no error is reported
null == [null |-> TRUE]

\* an error the streaming service reports
StreamError == [type |-> "GENERAL", message |-> "failed"]

\* get error()
error == info.error

\* getHeaderText that looks at the lifecycle first
getHeaderTextLiveFirst ==
  IF info.lifecycle = "live" THEN T("You're live!", <<>>)
  ELSE IF error # null THEN T("Something went wrong", <<>>)
  ELSE T("Working on your live stream", <<>>)

\* getHeaderText()
getHeaderText ==
  IF error # null THEN T("Something went wrong", <<>>)
  ELSE IF info.lifecycle = "live" THEN T("You're live!", <<>>)
  ELSE T("Working on your live stream", <<>>)

\* CheckMark that shows the circle for every state but done
CheckMarkCircleUnlessDone(state) ==
  [cssClass |-> {"check", state},
   icons |->
     (IF state # "done" THEN <<"fa fa-circle">> ELSE <<>>) \o
     (IF state = "pending" THEN <<"fa fa-spinner fa-pulse">> ELSE <<>>) \o
     (IF state = "done" THEN <<"fa fa-check">> ELSE <<>>) \o
     (IF state = "failed" THEN <<"fa fa-times">> ELSE <<>>)]

\* CheckMark.render(): the icons under the span, a child per condition that holds
CheckMark(state) ==
  [cssClass |-> {"check", state},
   icons |->
     (IF state = "not-started" THEN <<"fa fa-circle">> ELSE <<>>) \o
     (IF state = "pending" THEN <<"fa fa-spinner fa-pulse">> ELSE <<>>) \o
     (IF state = "done" THEN <<"fa fa-check">> ELSE <<>>) \o
     (IF state = "failed" THEN <<"fa fa-times">> ELSE <<>>)]

\* progress * 100 for every progress of the model, computed once
ProgressTimes100 == [p \in ProgressValues |-> DoubleTimes(p, 100)]

\* renderYoutubePercentage without the test for not-started
renderYoutubePercentageAlways ==
  [tag |-> "span",
   children |-> <<" ", ProgressTimes100[progressInfo.progress], "%">>]

\* renderYoutubePercentage(): the empty string, or the span with its children
renderYoutubePercentage ==
  IF info.checklist["publishYoutubeBroadcast"] = "not-started"
  THEN [tag |-> "text", children |-> <<>>]
  ELSE [tag |-> "span",
        children |-> <<" ", ProgressTimes100[progressInfo.progress], "%">>]

\* renderCheck(title, state, renderYTPercentage)
renderCheck(title, state, renderYTPercentage) ==
  [key |-> title,
   class |-> (IF state = "not-started" THEN {"notStarted"} ELSE {}) \cup
             (IF state = "failed" THEN {"itemError"} ELSE {}),
   check |-> CheckMark(state),
   title |-> title,
   percentage |-> IF renderYTPercentage THEN renderYoutubePercentage
                  ELSE [tag |-> "false", children |-> <<>>]]

\* destinations.youtube?.enabled
YoutubeEnabled ==
  IF "youtube" \in DOMAIN goLiveSettings.destinations
  THEN goLiveSettings.destinations["youtube"].enabled
  ELSE FALSE

\* shouldPublishYT without the test for the update mode
shouldPublishYTInUpdateMode == YoutubeEnabled

shouldPublishYT == ~isUpdateMode /\ YoutubeEnabled

shouldShowOptimizedProfile == useOptimizedProfile /\ ~isUpdateMode

\* shouldPostTweet that hides the tweet in update mode
shouldPostTweetNotInUpdate == tweetWhenGoingLive /\ ~isUpdateMode

shouldPostTweet == tweetWhenGoingLive

\* render(): the header and the list items, a child per condition that holds
render ==
  LET checklist == info.checklist
  IN  [h1 |-> getHeaderText,
       ul |->
         [i \in 1..Len(viewEnabledPlatforms) |->
            renderCheck(T("Update settings for %{platform}",
                          getPlatformDisplayName(viewEnabledPlatforms[i])),
                        checklist[viewEnabledPlatforms[i]], FALSE)] \o
         (IF ~isUpdateMode /\ isMutliplatformMode
          THEN <<renderCheck(T("Configure the Restream service", <<>>),
                             checklist["setupRestream"], FALSE)>>
          ELSE <<>>) \o
         (IF shouldShowOptimizedProfile
          THEN <<renderCheck(T("Apply optimized settings", <<>>),
                             checklist["applyOptimizedSettings"], FALSE)>>
          ELSE <<>>) \o
         (IF ~isUpdateMode
          THEN <<renderCheck(T("Start video transmission", <<>>),
                             checklist["startVideoTransmission"], FALSE)>>
          ELSE <<>>) \o
         (IF shouldPublishYT
          THEN <<renderCheck(T("Publish Youtube broadcast", <<>>),
                             checklist["publishYoutubeBroadcast"], TRUE)>>
          ELSE <<>>) \o
         (IF shouldPostTweet
          THEN <<renderCheck(T("Post a tweet", <<>>), checklist["postTweet"], FALSE)>>
          ELSE <<>>)]

ChecklistInit ==
  /\ info = [error |-> null, lifecycle |-> "waitForNewSettings",
             checklist |-> [s \in Stages |-> "not-started"]]
  /\ isMutliplatformMode \in BOOLEAN
  /\ goLiveSettings \in [destinations : GoLiveDestinations]
  /\ viewEnabledPlatforms \in EnabledPlatformLists
  /\ isUpdateMode \in BOOLEAN
  /\ useOptimizedProfile \in BOOLEAN
  /\ tweetWhenGoingLive \in BOOLEAN
  /\ progressInfo = [progress |-> DoubleZero]
  /\ rendered = render

\* the view is rendered again after every change of what it reads
Rerender == rendered' = render'

\* the index of the stage the go-live run works on next, 0 past the last one
NextStage ==
  IF \E i \in 1..Len(StageOrder) : info.checklist[StageOrder[i]] # "done"
  THEN CHOOSE i \in 1..Len(StageOrder) :
         /\ info.checklist[StageOrder[i]] # "done"
         /\ \A j \in 1..(i - 1) : info.checklist[StageOrder[j]] = "done"
  ELSE 0

\* the streaming service starts the next stage of the run
StageStarted ==
  /\ NextStage # 0
  /\ info.checklist[StageOrder[NextStage]] = "not-started"
  /\ info' = [info EXCEPT !.checklist[StageOrder[NextStage]] = "pending"]
  /\ UNCHANGED <<isMutliplatformMode, goLiveSettings, viewEnabledPlatforms, isUpdateMode,
                 useOptimizedProfile, tweetWhenGoingLive, progressInfo>>
  /\ Rerender

\* the streaming service ends the stage it runs, with success or not
StageEnded ==
  /\ NextStage # 0
  /\ info.checklist[StageOrder[NextStage]] = "pending"
  /\ \E result \in {"done", "failed"} :
       info' = [info EXCEPT !.checklist[StageOrder[NextStage]] = result]
  /\ UNCHANGED <<isMutliplatformMode, goLiveSettings, viewEnabledPlatforms, isUpdateMode,
                 useOptimizedProfile, tweetWhenGoingLive, progressInfo>>
  /\ Rerender

\* the streaming service reports an error, or clears it
ErrorChanged ==
  /\ \E e \in {null, StreamError} : e # info.error /\ info' = [info EXCEPT !.error = e]
  /\ UNCHANGED <<isMutliplatformMode, goLiveSettings, viewEnabledPlatforms, isUpdateMode,
                 useOptimizedProfile, tweetWhenGoingLive, progressInfo>>
  /\ Rerender

\* the streaming service moves to another lifecycle step
LifecycleChanged ==
  /\ \E l \in Lifecycles : l # info.lifecycle /\ info' = [info EXCEPT !.lifecycle = l]
  /\ UNCHANGED <<isMutliplatformMode, goLiveSettings, viewEnabledPlatforms, isUpdateMode,
                 useOptimizedProfile, tweetWhenGoingLive, progressInfo>>
  /\ Rerender

\* the youtube service reports another progress while it publishes the broadcast
ProgressChanged ==
  /\ info.checklist["publishYoutubeBroadcast"] = "pending"
  /\ \E p \in ProgressValues :
       p # progressInfo.progress /\ progressInfo' = [progressInfo EXCEPT !.progress = p]
  /\ UNCHANGED <<info, isMutliplatformMode, goLiveSettings, viewEnabledPlatforms,
                 isUpdateMode, useOptimizedProfile, tweetWhenGoingLive>>
  /\ Rerender

\* the checklist as the editor's runs see it: a window that is not open
ChecklistIdle ==
  /\ info = [error |-> null, lifecycle |-> "waitForNewSettings",
             checklist |-> [s \in Stages |-> "not-started"]]
  /\ isMutliplatformMode = FALSE
  /\ goLiveSettings = [destinations |-> <<>>]
  /\ viewEnabledPlatforms = <<>>
  /\ isUpdateMode = FALSE
  /\ useOptimizedProfile = FALSE
  /\ tweetWhenGoingLive = FALSE
  /\ progressInfo = [progress |-> DoubleZero]
  /\ rendered = render

\* the editor as the checklist's runs see it: a form that is not used
EditorIdle ==
  /\ settings = InitSettings({"youtube"})
  /\ broadcasts = <<>>
  /\ broadcastsLoaded = FALSE
  /\ fetchPromise = [state |-> "pending", value |-> <<>>]
  /\ isMidStreamMode = FALSE
  /\ pc = "idle"
  /\ last = [op |-> "created", changed |-> FALSE]

vars == <<editorVars, checklistVars>>

Init == EditorInit /\ ChecklistIdle

Next ==
  \/ FetchBroadcastsFulfilled /\ UNCHANGED checklistVars
  \/ FetchBroadcastsRejected /\ UNCHANGED checklistVars
  \/ BroadcastInputVModel /\ UNCHANGED checklistVars
  \/ onSelectBroadcastHandler /\ UNCHANGED checklistVars
  \/ CommonPlatformFieldsInput /\ UNCHANGED checklistVars
  \/ ValueDestinationToggled /\ UNCHANGED checklistVars
  \/ ValueAdvancedModeToggled /\ UNCHANGED checklistVars
  \/ MidStreamModeChanged /\ UNCHANGED checklistVars

Spec == Init /\ [][Next]_vars

InitChecklist == ChecklistInit /\ EditorIdle

NextChecklist ==
  \/ StageStarted /\ UNCHANGED editorVars
  \/ StageEnded /\ UNCHANGED editorVars
  \/ ErrorChanged /\ UNCHANGED editorVars
  \/ LifecycleChanged /\ UNCHANGED editorVars
  \/ ProgressChanged /\ UNCHANGED editorVars

SpecChecklist == InitChecklist /\ [][NextChecklist]_vars

(***************************************************************************)
(* Claims about the editor, checked under Spec.                            *)
(***************************************************************************)
yt == settings.destinations["youtube"]

\* a step of onSelectBroadcastHandler: the input event runs its second listener
HandlerStep == pc = "input" /\ pc' = "idle"

\* the step in which created() resumes with the fetched list
FulfilStep == fetchPromise.state = "pending" /\ fetchPromise'.state = "fulfilled"

HandlerKeepsText ==
  /\ settings'.destinations["youtube"].title = yt.title
  /\ settings'.destinations["youtube"].description = yt.description

HandlerCopiesEntry ==
  \E i \in 1..Len(broadcasts) :
    /\ broadcasts[i].id = yt.broadcastId
    /\ settings'.destinations["youtube"].title = broadcasts[i].snippet.title
    /\ settings'.destinations["youtube"].description = broadcasts[i].snippet.description

\* C3: when onSelectBroadcastHandler runs with a broadcastId no fetched broadcast
\* has, title and description stay as they were; when some fetched broadcast has
\* the id, title and description both become those of one such broadcast.
C3_SelectOverwritesOrNoop ==
  [][HandlerStep =>
       IF \A i \in 1..Len(broadcasts) : broadcasts[i].id # yt.broadcastId
       THEN HandlerKeepsText
       ELSE HandlerCopiesEntry]_vars

\* a selection of a fetched broadcast has just replaced the texts of the form
C3_Witness ==
  /\ last = [op |-> "selectHit", changed |-> TRUE]
  /\ broadcastsLoaded
  /\ yt.broadcastId = "b2"
  /\ yt.title \in {"Event 1", "Event 2"}

\* the number of destinations whose enabled flag is set
EnabledCount ==
  Cardinality({p \in DOMAIN settings.destinations : settings.destinations[p].enabled})

\* C4: canShowOnlyRequiredFields is true exactly when more than one destination
\* is enabled and advancedMode is off; disabled destinations do not count.
C4_OnlyRequiredFields ==
  canShowOnlyRequiredFields(settings) <=> (EnabledCount > 1 /\ ~settings.advancedMode)

\* two destinations enabled next to a disabled one, advanced mode off
C4_Witness ==
  /\ canShowOnlyRequiredFields(settings)
  /\ EnabledCount = 2
  /\ Cardinality(DOMAIN settings.destinations) > 2
  /\ last.op = "value"

\* C8: until the fetch is fulfilled the selector is loading and the list is
\* empty (also after a rejection); once it is fulfilled the list is the fetched
\* one and the selector is not loading; loading never comes back.
C8_LoadingState ==
  /\ fetchPromise.state # "fulfilled" =>
       formMetadata.event.loading /\ formMetadata.event.broadcasts = <<>>
  /\ fetchPromise.state = "fulfilled" =>
       ~formMetadata.event.loading /\ formMetadata.event.broadcasts = fetchPromise.value

C8_LoadingUntilFetched ==
  /\ []C8_LoadingState
  /\ [][~formMetadata.event.loading => ~formMetadata.event.loading']_vars
  /\ [][fetchPromise.state = "rejected" => fetchPromise'.state = "rejected"]_vars

\* the fetch was fulfilled with broadcasts and the form went on being used
C8_Witness ==
  /\ fetchPromise.state = "fulfilled"
  /\ Len(formMetadata.event.broadcasts) = MaxBroadcasts
  /\ ~formMetadata.event.loading
  /\ last.op = "edit"

\* C9: canChangeBroadcast is the negation of isMidStreamMode and the selector
\* is disabled exactly in mid-stream mode, loaded or not.
C9_DisabledIffMidStream ==
  /\ canChangeBroadcast = ~isMidStreamMode
  /\ formMetadata.event.disabled = isMidStreamMode

\* streaming entered the mid-stream mode while the broadcasts were loading
C9_Witness ==
  /\ last.op = "midStream"
  /\ isMidStreamMode
  /\ formMetadata.event.disabled
  /\ formMetadata.event.loading

\* the settings with the youtube title and description taken from t
WithTextOf(s, t) ==
  [s EXCEPT !.destinations["youtube"].title = t.destinations["youtube"].title,
            !.destinations["youtube"].description =
               t.destinations["youtube"].description]

\* C10: a selection handled before the fetch is fulfilled changes nothing, the
\* fulfilment does not apply it afterwards, and the handler changes nothing but
\* the youtube title and description.
C10_SelectionAndFetch ==
  /\ [][HandlerStep /\ fetchPromise.state # "fulfilled" => settings' = settings]_vars
  /\ [][FulfilStep => settings' = settings]_vars
  /\ [][HandlerStep =>
          /\ WithTextOf(settings', settings) = settings
          /\ UNCHANGED <<broadcasts, broadcastsLoaded, fetchPromise>>]_vars

\* b1 was selected while loading; the fetch then brought b1 and the texts stayed
C10_Witness ==
  /\ last.op = "fulfilled"
  /\ yt.broadcastId = "b1"
  /\ Find(broadcasts, "b1") # undefined
  /\ yt.title = "my title"
  /\ yt.description = "my description"

(***************************************************************************)
(* Claims about the checklist, checked under SpecChecklist.                *)
(***************************************************************************)
HeaderError == T("Something went wrong", <<>>)
HeaderLive == T("You're live!", <<>>)
HeaderWorking == T("Working on your live stream", <<>>)

\* C1: the header is the error headline whenever an error is present, "You're
\* live!" without an error in the live lifecycle, the working text otherwise.
C1_HeaderPrecedence ==
  /\ info.error # null => rendered.h1 = HeaderError
  /\ info.error = null /\ info.lifecycle = "live" => rendered.h1 = HeaderLive
  /\ info.error = null /\ info.lifecycle # "live" => rendered.h1 = HeaderWorking

\* an error is reported while the stream is live
C1_Witness ==
  /\ info.error # null
  /\ info.lifecycle = "live"
  /\ rendered.h1 = HeaderError

\* the titles of the rendered list items, in order
RenderedTitles == [i \in 1..Len(rendered.ul) |-> rendered.ul[i].title]

PlatformTitle(p) ==
  [text |-> "Update settings for %{platform}", params |-> getPlatformDisplayName(p)]

RestreamTitle == T("Configure the Restream service", <<>>)
OptimizedTitle == T("Apply optimized settings", <<>>)
TransmissionTitle == T("Start video transmission", <<>>)
PublishTitle == T("Publish Youtube broadcast", <<>>)
TweetTitle == T("Post a tweet", <<>>)

IsPlatformTitle(t) == t.text = "Update settings for %{platform}"

\* C2: in update mode none of the restream, optimized settings, transmission
\* and Youtube publishing stages is rendered, and one update stage is rendered
\* for each enabled platform.
C2_UpdateModeStages ==
  isUpdateMode =>
    /\ \A i \in 1..Len(rendered.ul) :
         rendered.ul[i].title \notin
           {RestreamTitle, OptimizedTitle, TransmissionTitle, PublishTitle}
    /\ SelectSeq(RenderedTitles, IsPlatformTitle) =
         [i \in 1..Len(viewEnabledPlatforms) |-> PlatformTitle(viewEnabledPlatforms[i])]

\* update mode with every other condition of the four stages satisfied
C2_Witness ==
  /\ isUpdateMode
  /\ isMutliplatformMode
  /\ useOptimizedProfile
  /\ YoutubeEnabled
  /\ Len(viewEnabledPlatforms) = MaxEnabled
  /\ Len(rendered.ul) = MaxEnabled
  /\ info.checklist[viewEnabledPlatforms[1]] = "done"

\* the key of view.info.checklist a rendered title belongs to
StageOfTitle(t) ==
  IF IsPlatformTitle(t)
  THEN CHOOSE p \in Platforms : getPlatformDisplayName(p) = t.params
  ELSE CASE t = RestreamTitle -> "setupRestream"
         [] t = OptimizedTitle -> "applyOptimizedSettings"
         [] t = TransmissionTitle -> "startVideoTransmission"
         [] t = PublishTitle -> "publishYoutubeBroadcast"
         [] t = TweetTitle -> "postTweet"

IconOf(state) ==
  CASE state = "not-started" -> "fa fa-circle"
    [] state = "pending" -> "fa fa-spinner fa-pulse"
    [] state = "done" -> "fa fa-check"
    [] state = "failed" -> "fa fa-times"

\* C5: every rendered stage shows exactly the one icon of its status and has
\* the not-started class only when not started, the error class only when failed.
C5_IconAndClass ==
  \A i \in 1..Len(rendered.ul) :
    LET item == rendered.ul[i]
        state == info.checklist[StageOfTitle(item.title)]
    IN  /\ item.check.icons = <<IconOf(state)>>
        /\ ("notStarted" \in item.class) <=> (state = "not-started")
        /\ ("itemError" \in item.class) <=> (state = "failed")

\* a list that shows a done, a failed and a not started stage at once
C5_Witness ==
  /\ \E i \in 1..Len(rendered.ul) :
       rendered.ul[i].check.icons = <<"fa fa-check">> /\ rendered.ul[i].class = {}
  /\ \E i \in 1..Len(rendered.ul) :
       rendered.ul[i].check.icons = <<"fa fa-times">> /\ rendered.ul[i].class = {"itemError"}
  /\ \E i \in 1..Len(rendered.ul) :
       rendered.ul[i].check.icons = <<"fa fa-circle">> /\ rendered.ul[i].class = {"notStarted"}

\* the progress 0.42
Progress042 ==
  [hex |-> <<1, 10, 14, 1, 4, 7, 10, 14, 1, 4, 7, 10, 14, 1>>, exp |-> -2]

\* C6: a list item carries the percentage exactly when it is the Youtube
\* publishing stage and that stage is past not-started; with the progress 0.42
\* the percentage reads 42%.
C6_YoutubePercentage ==
  \A i \in 1..Len(rendered.ul) :
    LET item == rendered.ul[i]
    IN  /\ (item.percentage.tag = "span") <=>
             /\ item.title = PublishTitle
             /\ info.checklist["publishYoutubeBroadcast"] \in {"pending", "done", "failed"}
        /\ item.percentage.tag = "span" /\ progressInfo.progress = Progress042 =>
             item.percentage.children = <<" ", DoubleOfInt(42), "%">>

\* the publishing stage is shown pending at 42% next to other stages
C6_Witness ==
  /\ progressInfo.progress = Progress042
  /\ info.checklist["publishYoutubeBroadcast"] = "pending"
  /\ Len(rendered.ul) > 2
  /\ \E i \in 1..Len(rendered.ul) :
       /\ rendered.ul[i].title = PublishTitle
       /\ rendered.ul[i].percentage =
            [tag |-> "span", children |-> <<" ", DoubleOfInt(42), "%">>]

\* the condition under which a stage of the fixed sequence is kept
Kept(t) ==
  CASE IsPlatformTitle(t) -> TRUE
    [] t = RestreamTitle -> isMutliplatformMode /\ ~isUpdateMode
    [] t = OptimizedTitle -> useOptimizedProfile /\ ~isUpdateMode
    [] t = TransmissionTitle -> ~isUpdateMode
    [] t = PublishTitle ->
         /\ ~isUpdateMode
         /\ "youtube" \in DOMAIN goLiveSettings.destinations
         /\ goLiveSettings.destinations["youtube"].enabled
    [] t = TweetTitle -> tweetWhenGoingLive

FixedSequence ==
  [i \in 1..Len(viewEnabledPlatforms) |-> PlatformTitle(viewEnabledPlatforms[i])] \o
  <<RestreamTitle, OptimizedTitle, TransmissionTitle, PublishTitle, TweetTitle>>

\* C7: the rendered stages are the fixed sequence (platform updates, restream,
\* optimized settings, transmission, Youtube publishing, tweet) with each stage
\* kept exactly under its condition, in that order.
C7_StageSequence == RenderedTitles = SelectSeq(FixedSequence, Kept)

\* update mode with tweeting on: the tweet stage follows the platform stages
C7_Witness ==
  /\ isUpdateMode
  /\ tweetWhenGoingLive
  /\ Len(viewEnabledPlatforms) = MaxEnabled
  /\ RenderedTitles[Len(rendered.ul)] = TweetTitle
  /\ info.checklist["postTweet"] = "pending"

====
